---- MODULE Spec2Model ----
(***************************************************************************)
(* Model of the web-automation task engine.                                *)
(*                                                                         *)
(* Two stores exist in the repository and both are modelled:               *)
(*   - the SQLite store of automation/task_manager.py (TaskDatabase,       *)
(*     TaskScheduler): db_tasks, task_logs, and the callers of             *)
(*     create_task;                                                        *)
(*   - the dashboard session of app.py (WebAutomationManager, main):       *)
(*     tasks, task_counter and the script run of the session.              *)
(*                                                                         *)
(* Conventions.  An Optional value is a sequence of length 0 (None) or 1.  *)
(* A task id "task_<n>" is modelled by the integer n, a datetime by the    *)
(* integer clock reading.  A Python dict is a sequence of <<key, value>>   *)
(* pairs, a Python list a sequence.                                        *)
(***************************************************************************)
EXTENDS Integers, Sequences, FiniteSets, TLC

VARIABLES
    clock,          \* wall clock, in milliseconds (time.time() * 1000 truncated)
    db_tasks,       \* table tasks: id -> row
    task_logs,      \* table task_logs, in AUTOINCREMENT order
    cpc,            \* position of each create_task caller
    ctask,          \* the AutomationTask a caller has built
    reply,          \* what get_task_status returned, if it was the last query
    listing,        \* the last call on the store: its name, its arguments and
                    \* the rows it returned (for save_task: the task saved)
    tasks,          \* st.session_state.tasks
    task_counter,   \* st.session_state.task_counter
    pc,             \* position of the session's script run
    exec,           \* the task the script run has handed to execute_web_task
    messages,       \* banners shown by the current script run
    issued,         \* history: the ids add_task has returned in this session
    xpc,            \* position of the running execute_*_task call
    xcall,          \* that call: the function and its task_data
    page,           \* the page the browser would load for it
    driver,         \* controller.driver: "none" or "open"
    pending,        \* the return value or exception the try block left
    outcome         \* what the last execute_*_task call gave its caller

vars == <<clock, db_tasks, task_logs, cpc, ctask, reply, listing, tasks, task_counter, pc, exec, messages, issued, xpc, xcall, page, driver, pending, outcome>>
schedVars == <<db_tasks, task_logs, cpc, ctask, reply, listing>>
dashVars == <<tasks, task_counter, pc, exec, messages, issued>>
ctrlVars == <<xpc, xcall, page, driver, pending, outcome>>

----------------------------------------------------------------------------
(* Bounds *)

MaxTime == 1        \* clock readings are 0..MaxTime
MaxCreates == 2     \* create_task calls started in a behaviour
MaxTasks == 1       \* dashboard submissions kept in the list at once

Callers == {1, 2}   \* threads that call TaskScheduler.create_task

None == <<>>
Some(x) == <<x>>

----------------------------------------------------------------------------
(* automation/task_manager.py *)

PENDING == "pending"
RUNNING == "running"
COMPLETED == "completed"
FAILED == "failed"
CANCELLED == "cancelled"
SCHEDULED == "scheduled"
TaskStatus == {PENDING, RUNNING, COMPLETED, FAILED, CANCELLED, SCHEDULED}

LOW == 1
MEDIUM == 2
HIGH == 3
URGENT == 4
TaskPriority == {LOW, MEDIUM, HIGH, URGENT}

max_retries == 3     \* AutomationTask.max_retries default

\* Python truthiness of an Optional value: None, {} and [] are falsy.
Truthy(opt) == opt # None /\ opt[1] # <<>>

\* Python truthiness of an Optional[datetime]: every datetime is truthy.
TruthyTime(opt) == opt # None

\* AutomationTask(...) with the dataclass defaults.
AutomationTask(id, task_type, url, description, priority, status, now, scheduled_at, task_data, tags, webhook_url) ==
    [id |-> id, task_type |-> task_type, url |-> url,
     description |-> description, priority |-> priority, status |-> status,
     created_at |-> now, updated_at |-> now, scheduled_at |-> scheduled_at,
     executed_at |-> None, completed_at |-> None, result |-> None,
     error_message |-> None, retry_count |-> 0, max_retries |-> max_retries,
     task_data |-> task_data, tags |-> tags, webhook_url |-> webhook_url]

\* json.dumps(x) if x else None
DumpsIfTruthy(opt) == IF Truthy(opt) THEN Some(<<"json", opt[1]>>) ELSE None

\* json.loads(col) if col else None
LoadsIfTruthy(col) == IF col # None THEN Some(col[1][2]) ELSE None

\* x.isoformat() if x else None
IsoIfTruthy(opt) == IF TruthyTime(opt) THEN Some(<<"iso", opt[1]>>) ELSE None

\* datetime.fromisoformat(col) if col else None
FromIsoIfTruthy(col) == IF col # None THEN Some(col[1][2]) ELSE None

\* The tuple of column values save_task binds.
TaskRow(task) ==
    [id |-> task.id, task_type |-> task.task_type, url |-> task.url,
     description |-> task.description, priority |-> task.priority,
     status |-> task.status,
     created_at |-> <<"iso", task.created_at>>,
     updated_at |-> <<"iso", task.updated_at>>,
     scheduled_at |-> IsoIfTruthy(task.scheduled_at),
     executed_at |-> IsoIfTruthy(task.executed_at),
     completed_at |-> IsoIfTruthy(task.completed_at),
     result |-> DumpsIfTruthy(task.result),
     error_message |-> task.error_message,
     retry_count |-> task.retry_count, max_retries |-> task.max_retries,
     task_data |-> DumpsIfTruthy(task.task_data),
     tags |-> DumpsIfTruthy(task.tags),
     webhook_url |-> task.webhook_url]

\* save_task binding task.status.name ("PENDING") where the column holds
\* task.status.value ("pending").
save_task_status_name(table, task) ==
    [i \in DOMAIN table \cup {task.id} |->
        IF i = task.id
        THEN [TaskRow(task) EXCEPT !.status =
                CASE task.status = PENDING -> "PENDING"
                  [] task.status = SCHEDULED -> "SCHEDULED"
                  [] OTHER -> "OTHER"]
        ELSE table[i]]

\* INSERT OR REPLACE INTO tasks: the row with this primary key is replaced.
save_task(table, task) ==
    [i \in DOMAIN table \cup {task.id} |->
        IF i = task.id THEN TaskRow(task) ELSE table[i]]

_row_to_task(row) ==
    [id |-> row.id, task_type |-> row.task_type, url |-> row.url,
     description |-> row.description, priority |-> row.priority,
     status |-> row.status,
     created_at |-> row.created_at[2],
     updated_at |-> row.updated_at[2],
     scheduled_at |-> FromIsoIfTruthy(row.scheduled_at),
     executed_at |-> FromIsoIfTruthy(row.executed_at),
     completed_at |-> FromIsoIfTruthy(row.completed_at),
     result |-> LoadsIfTruthy(row.result),
     error_message |-> row.error_message,
     retry_count |-> row.retry_count, max_retries |-> row.max_retries,
     task_data |-> LoadsIfTruthy(row.task_data),
     tags |-> LoadsIfTruthy(row.tags),
     webhook_url |-> row.webhook_url]

\* The SELECT without its WHERE clause: fetchone() yields the first row.
get_task_first_row(task_id) ==
    IF DOMAIN db_tasks # {}
    THEN Some(_row_to_task(db_tasks[CHOOSE i \in DOMAIN db_tasks :
                                        \A j \in DOMAIN db_tasks : i <= j]))
    ELSE None

\* SELECT * FROM tasks WHERE id = ?
get_task(task_id) ==
    IF task_id \in DOMAIN db_tasks THEN Some(_row_to_task(db_tasks[task_id]))
    ELSE None

\* The INSERT replacing the log line instead of adding one.
log_task_event_replace(logs, task_id, level, message) ==
    <<[task_id |-> task_id, timestamp |-> clock,
       level |-> level, message |-> message]>>

\* INSERT INTO task_logs (task_id, timestamp, level, message)
log_task_event(logs, task_id, level, message) ==
    Append(logs, [task_id |-> task_id, timestamp |-> clock,
                  level |-> level, message |-> message])

\* The arguments callers pass to create_task.  A scheduled_at of DueTime is
\* in the future for a call made at clock 0 and not in the future later on.
DueTime == 1
ScheduleTimes == {DueTime}
FormData == << <<"name", "John">> >>
Submissions ==
    {[url |-> "", description |-> "d", scheduled_at |-> None, task_data |-> None],
     [url |-> "u", description |-> "", scheduled_at |-> None, task_data |-> Some(<<>>)],
     [url |-> "u", description |-> "d", scheduled_at |-> None, task_data |-> Some(FormData)]}
    \cup {[url |-> "u", description |-> "d", scheduled_at |-> Some(t),
           task_data |-> Some(FormData)] : t \in ScheduleTimes}

\* Calls of create_task started so far: finished ones have logged an event.
Started == Len(task_logs) + Cardinality({c \in Callers : cpc[c] # "idle"})

NoTask == AutomationTask(0, "", "", "", MEDIUM, PENDING, 0, None, None, None, None)

\* create_task, lines 200-216: the id and the task object are built.
CreateTaskBuild(c, sub) ==
    /\ cpc[c] = "idle"
    /\ Started < MaxCreates
    /\ LET task_id == clock
           now == clock
           status == IF TruthyTime(sub.scheduled_at) THEN SCHEDULED ELSE PENDING
       IN ctask' = [ctask EXCEPT ![c] =
              AutomationTask(task_id, "form_fill", sub.url, sub.description,
                             MEDIUM, status, now, sub.scheduled_at,
                             sub.task_data, None, None)]
    /\ cpc' = [cpc EXCEPT ![c] = "built"]
    /\ UNCHANGED <<clock, db_tasks, task_logs, reply, listing, dashVars, ctrlVars>>

\* create_task, line 218: self.db.save_task(task), one transaction.
CreateTaskSave(c) ==
    /\ cpc[c] = "built"
    /\ db_tasks' = save_task(db_tasks, ctask[c])
    /\ cpc' = [cpc EXCEPT ![c] = "saved"]
    /\ UNCHANGED <<clock, task_logs, ctask, reply, listing, dashVars, ctrlVars>>

\* create_task, lines 219-222: the event is logged and the id returned.
CreateTaskLog(c) ==
    /\ cpc[c] = "saved"
    /\ task_logs' = log_task_event(task_logs, ctask[c].id, "INFO", "Task created")
    /\ cpc' = [cpc EXCEPT ![c] = "idle"]
    /\ ctask' = [ctask EXCEPT ![c] = NoTask]
    /\ UNCHANGED <<clock, db_tasks, reply, listing, dashVars, ctrlVars>>

\* The ids a caller may ask for: those create_task can hand out.
TaskIds == 0..MaxTime

\* x.isoformat() if x else None, on the task read back.
IsoOrNone(opt) == IF TruthyTime(opt) THEN Some(<<"iso", opt[1]>>) ELSE None

\* TaskScheduler.get_task_status: the dict returned, or None.
get_task_status(task_id) ==
    LET found == get_task(task_id)
    IN IF found = None THEN None
       ELSE LET task == found[1]
            IN Some([id |-> task.id, status |-> task.status,
                     description |-> task.description,
                     created_at |-> <<"iso", task.created_at>>,
                     updated_at |-> <<"iso", task.updated_at>>,
                     executed_at |-> IsoOrNone(task.executed_at),
                     completed_at |-> IsoOrNone(task.completed_at),
                     result |-> task.result,
                     error_message |-> task.error_message,
                     retry_count |-> task.retry_count])

\* No listing call was the last call.
NoListing == [fn |-> "", status |-> None, limit |-> 0, raised |-> FALSE, rows |-> <<>>]

\* The record of a call that takes no filter and no limit.
Called(fn, rows) == [NoListing EXCEPT !.fn = fn, !.rows = rows]

\* A status lookup that records the read in the event log.
GetTaskStatusLogged(task_id) ==
    /\ reply' = get_task_status(task_id)
    /\ task_logs' = log_task_event(task_logs, task_id, "INFO", "Status read")
    /\ listing' = Called("get_task_status", <<>>)
    /\ UNCHANGED <<clock, db_tasks, cpc, ctask, dashVars, ctrlVars>>

\* A caller asks for the status of a task.
GetTaskStatus(task_id) ==
    /\ reply' = get_task_status(task_id)
    /\ listing' = Called("get_task_status", <<>>)
    /\ UNCHANGED <<clock, db_tasks, task_logs, cpc, ctask, dashVars, ctrlVars>>

\* The AutomationTask objects callers of TaskDatabase.save_task pass: pending,
\* completed (with a result, and with the empty result {}, the empty task_data
\* {} and the empty tags []) and failed tasks, created at either of two times.
CreatedTimes == {0, 1}
ResultData == << <<"message", "done">> >>
TaskObjects ==
    {[AutomationTask(id, "form_fill", "u", "d", MEDIUM, v.status, now,
                     None, v.task_data, v.tags, None)
        EXCEPT !.result = v.result, !.error_message = v.error_message] :
        id \in TaskIds, now \in CreatedTimes,
        v \in {[status |-> PENDING, result |-> None, error_message |-> None,
                task_data |-> Some(FormData), tags |-> None],
               [status |-> COMPLETED, result |-> Some(ResultData),
                error_message |-> None,
                task_data |-> Some(FormData), tags |-> Some(<<"nightly">>)],
               [status |-> COMPLETED, result |-> Some(<<>>),
                error_message |-> None,
                task_data |-> Some(<<>>), tags |-> Some(<<>>)],
               [status |-> FAILED, result |-> None,
                error_message |-> Some("Navigation failed"),
                task_data |-> None, tags |-> None]}}

\* A save that also writes a line of the event log.
SaveTaskLogged(task) ==
    /\ db_tasks' = save_task(db_tasks, task)
    /\ task_logs' = log_task_event(task_logs, task.id, "INFO", "Task saved")
    /\ reply' = None
    /\ listing' = Called("save_task", <<task>>)
    /\ UNCHANGED <<clock, cpc, ctask, dashVars, ctrlVars>>

\* A caller saves a task object: TaskDatabase.save_task.
SaveTask(task) ==
    /\ db_tasks' = save_task(db_tasks, task)
    /\ reply' = None
    /\ listing' = Called("save_task", <<task>>)
    /\ UNCHANGED <<clock, task_logs, cpc, ctask, dashVars, ctrlVars>>

\* The rows a SELECT with "WHERE status = ?" (or without it) matches.
Matching(status) ==
    {id \in DOMAIN db_tasks : status = None \/ db_tasks[id].status = status[1]}

\* ORDER BY created_at DESC: the orders SQLite may return the rows in.  The
\* column holds isoformat texts, whose text order is the order of the times;
\* the order of rows with equal created_at is not specified.
OrderedDesc(ids) ==
    {f \in [1..Cardinality(ids) -> ids] :
        /\ \A i, j \in 1..Cardinality(ids) : i # j => f[i] # f[j]
        /\ \A i, j \in 1..Cardinality(ids) :
                i < j => db_tasks[f[i]].created_at[2] >= db_tasks[f[j]].created_at[2]}

Min(a, b) == IF a <= b THEN a ELSE b

\* The SELECT with ORDER BY created_at ASC.
get_tasks_oldest_first(status, limit) ==
    {[k \in 1..Min(limit, Len(f)) |-> _row_to_task(db_tasks[f[Len(f) + 1 - k]])] :
        f \in OrderedDesc(Matching(status))}

\* TaskDatabase.get_tasks: the lists it may return.
get_tasks(status, limit) ==
    {[k \in 1..Min(limit, Len(f)) |-> _row_to_task(db_tasks[f[k]])] :
        f \in OrderedDesc(Matching(status))}

DefaultLimit == 100
Limits == {1, 2, DefaultLimit}
StatusFilters == {None} \cup {Some(st) : st \in TaskStatus}

\* A caller lists tasks: TaskDatabase.get_tasks.
GetTasks(status, limit) ==
    /\ \E rows \in get_tasks(status, limit) :
            listing' = [fn |-> "get_tasks", status |-> status, limit |-> limit,
                        raised |-> FALSE, rows |-> rows]
    /\ reply' = None
    /\ UNCHANGED <<clock, db_tasks, task_logs, cpc, ctask, dashVars, ctrlVars>>

\* The dict get_all_tasks builds for a task.
TaskSummary(task) ==
    [id |-> task.id, task_type |-> task.task_type, url |-> task.url,
     description |-> task.description, priority |-> task.priority,
     status |-> task.status,
     created_at |-> <<"iso", task.created_at>>,
     updated_at |-> <<"iso", task.updated_at>>,
     scheduled_at |-> IsoOrNone(task.scheduled_at),
     result |-> task.result, error_message |-> task.error_message]

\* The status strings callers pass to get_all_tasks; "done" names no status.
StatusArgs == {None, Some(""), Some("done")} \cup {Some(st) : st \in TaskStatus}

\* A caller lists tasks: TaskScheduler.get_all_tasks.  TaskStatus(status)
\* raises ValueError for a string that names no status.
GetAllTasks(status) ==
    /\ IF status # None /\ status[1] # "" /\ status[1] \notin TaskStatus
       THEN listing' = [fn |-> "get_all_tasks", status |-> status,
                        limit |-> DefaultLimit, raised |-> TRUE, rows |-> <<>>]
       ELSE LET task_status == IF status # None /\ status[1] # "" THEN status ELSE None
            IN \E found \in get_tasks(task_status, DefaultLimit) :
                listing' = [fn |-> "get_all_tasks", status |-> task_status,
                            limit |-> DefaultLimit, raised |-> FALSE,
                            rows |-> [k \in 1..Len(found) |-> TaskSummary(found[k])]]
    /\ reply' = None
    /\ UNCHANGED <<clock, db_tasks, task_logs, cpc, ctask, dashVars, ctrlVars>>

\* Time passes.
Tick ==
    /\ clock < MaxTime
    /\ clock' = clock + 1
    /\ UNCHANGED <<schedVars, dashVars, ctrlVars>>

----------------------------------------------------------------------------
(* app.py *)

\* json.loads on the texts typed into "Form Fields (JSON)": the parsed value,
\* or ok = FALSE for json.JSONDecodeError.  An object is its sequence of keys.
EmptyObject == [kind |-> "object", keys |-> <<>>]
json_loads(text) ==
    CASE text = "{}" -> [ok |-> TRUE, value |-> EmptyObject]
      [] text = "{\"name\": \"John\"}" ->
            [ok |-> TRUE, value |-> [kind |-> "object", keys |-> <<"name">>]]
      [] text = "[\"name\"]" ->
            [ok |-> TRUE, value |-> [kind |-> "array", keys |-> <<"name">>]]
      [] text = "null" -> [ok |-> TRUE, value |-> [kind |-> "null", keys |-> <<>>]]
      [] OTHER -> [ok |-> FALSE, value |-> [kind |-> "null", keys |-> <<>>]]

\* A text area is the sequence of its lines (text.split('\n')); the empty
\* text has the single line "".
EmptyText == <<"">>
strip(line) ==
    CASE line = " " -> ""
      [] line = " .b " -> ".b"
      [] OTHER -> line

RECURSIVE StripLines(_)
\* [s.strip() for s in text.split('\n') if s.strip()]
StripLines(lines) ==
    IF lines = <<>> THEN <<>>
    ELSE IF strip(Head(lines)) # "" THEN <<strip(Head(lines))>> \o StripLines(Tail(lines))
         ELSE StripLines(Tail(lines))

\* Widget values of the sidebar.
TaskTypes == {"form_fill", "data_extraction", "click_automation", "file_upload"}
Urls == {"", "https://example.com"}
Descriptions == {"", "d"}
Priorities == {"Medium"}     \* the selectbox default; the value is only stored
FormFieldTexts == {"", "{}", "{\"name\": \"John\"}", "{name: John", "John", "[\"name\"]", "null"}
LineTexts == {EmptyText, <<" ">>, <<".a", " ", " .b ">>}
FileSelectors == {"", "input[type='file']"}
ScheduleTypes == {"Immediate", "Scheduled"}

\* The state of the sidebar widgets when "Create Task" is pressed.  Only the
\* widgets of the selected task type exist; lines stands for the text area of
\* the selected type (selectors, click_sequence or files).
Sidebar ==
    {[task_type |-> tt, url |-> u, description |-> d, priority |-> p,
      schedule_type |-> st, schedule_time |-> DueTime,
      form_fields |-> ff, lines |-> EmptyText, file_selector |-> ""] :
        tt \in {"form_fill"}, u \in Urls, d \in Descriptions, p \in Priorities,
        st \in ScheduleTypes, ff \in FormFieldTexts}
    \cup
    {[task_type |-> tt, url |-> u, description |-> d, priority |-> p,
      schedule_type |-> st, schedule_time |-> DueTime,
      form_fields |-> "", lines |-> ln, file_selector |-> fs] :
        tt \in {"data_extraction", "click_automation"}, u \in Urls,
        d \in Descriptions, p \in Priorities, st \in ScheduleTypes,
        ln \in LineTexts, fs \in {""}}
    \cup
    {[task_type |-> tt, url |-> u, description |-> d, priority |-> p,
      schedule_type |-> st, schedule_time |-> DueTime,
      form_fields |-> "", lines |-> ln, file_selector |-> fs] :
        tt \in {"file_upload"}, u \in Urls, d \in Descriptions,
        p \in Priorities, st \in ScheduleTypes, ln \in LineTexts,
        fs \in FileSelectors}

\* The except branch without its return: the decode error is swallowed.
InvalidJsonSwallowed(w) == FALSE

\* The form_fill branch of main hits json.JSONDecodeError (lines 230-235).
InvalidJson(w) ==
    /\ w.task_type = "form_fill"
    /\ w.form_fields # ""
    /\ ~json_loads(w.form_fields).ok

\* main, lines 221-248: the task_data dict.  A key that is not set is None.
PrepareTaskData(w) ==
    [task_type |-> w.task_type, url |-> w.url, description |-> w.description,
     priority |-> w.priority, schedule_type |-> w.schedule_type,
     form_data |->
        IF w.task_type = "form_fill" /\ w.form_fields # ""
        THEN Some(json_loads(w.form_fields).value) ELSE None,
     selectors |->
        IF w.task_type = "data_extraction" /\ w.lines # EmptyText
        THEN Some(StripLines(w.lines)) ELSE None,
     click_sequence |->
        IF w.task_type = "click_automation" /\ w.lines # EmptyText
        THEN Some(StripLines(w.lines)) ELSE None,
     file_selector |->
        IF w.task_type = "file_upload" /\ w.lines # EmptyText
        THEN Some(w.file_selector) ELSE None,
     files |->
        IF w.task_type = "file_upload" /\ w.lines # EmptyText
        THEN Some(StripLines(w.lines)) ELSE None,
     schedule_time |->
        IF w.schedule_type = "Scheduled" THEN Some(w.schedule_time) ELSE None]

\* WebAutomationManager.add_task: the dict appended to the list.
NewTask(task_data) ==
    [id |-> task_counter, timestamp |-> clock, status |-> "Pending",
     data |-> task_data, result |-> None, updated |-> None]

\* WebAutomationManager._simulate_form_fill.  len(form_data) and
\* form_data.keys() raise unless form_data is a dict.
_simulate_form_fill(task_data) ==
    LET form_data == IF task_data.form_data = None THEN EmptyObject
                     ELSE task_data.form_data[1]
    IN CASE form_data.kind = "object" ->
                [success |-> TRUE, text |-> "Successfully filled form"]
         [] form_data.kind = "array" ->
                [success |-> FALSE, text |-> "'list' object has no attribute 'keys'"]
         [] OTHER ->
                [success |-> FALSE, text |-> "object of type 'NoneType' has no len()"]

\* WebAutomationManager.execute_web_task.
execute_web_task(task_data) ==
    CASE task_data.task_type = "form_fill" -> _simulate_form_fill(task_data)
      [] task_data.task_type = "data_extraction" ->
            [success |-> TRUE, text |-> "Successfully extracted data"]
      [] task_data.task_type = "click_automation" ->
            [success |-> TRUE, text |-> "Successfully executed click actions"]
      [] task_data.task_type = "file_upload" ->
            [success |-> TRUE, text |-> "Successfully uploaded files"]
      [] OTHER -> [success |-> FALSE, text |-> "Unknown task type"]

\* Index of the first task of the list with this id, 0 if there is none.
FirstWithId(list, task_id) ==
    IF \E i \in 1..Len(list) : list[i].id = task_id
    THEN CHOOSE i \in 1..Len(list) :
            /\ list[i].id = task_id
            /\ \A j \in 1..(i - 1) : list[j].id # task_id
    ELSE 0

\* WebAutomationManager.update_task_status.
update_task_status(list, task_id, status, result) ==
    LET i == FirstWithId(list, task_id)
    IN IF i = 0 THEN list
       ELSE [list EXCEPT ![i] =
                [@ EXCEPT !.status = status,
                          !.result = IF result # "" THEN Some(result) ELSE @,
                          !.updated = Some(clock)]]

\* The status the outcome of execute_web_task is recorded with.
OutcomeStatus(result) == IF result.success THEN "Completed" ELSE "Failed"

\* main, lines 218-265: "Create Task" is pressed.
CreateTaskClick(w) ==
    /\ pc = "idle"
    /\ Len(tasks) < MaxTasks
    /\ IF ~(w.url # "" /\ w.description # "")
       THEN /\ messages' = <<[kind |-> "error", text |-> "Please fill in URL and description", id |-> None]>>
            /\ UNCHANGED <<tasks, task_counter, pc, exec, issued>>
       ELSE IF InvalidJson(w)
       THEN /\ messages' = <<[kind |-> "error", text |-> "Invalid JSON format for form fields", id |-> None]>>
            /\ UNCHANGED <<tasks, task_counter, pc, exec, issued>>
       ELSE LET task_data == PrepareTaskData(w)
                task == NewTask(task_data)
            IN /\ tasks' = Append(tasks, task)
               /\ task_counter' = task_counter + 1
               /\ issued' = issued \cup {task.id}
               /\ messages' = <<[kind |-> "success", text |-> "Task created successfully!", id |-> Some(task.id)]>>
               /\ IF w.schedule_type = "Immediate"
                  THEN /\ pc' = "executing"
                       /\ exec' = Some([id |-> task.id, data |-> task_data, from |-> "create"])
                  ELSE UNCHANGED <<pc, exec>>
    /\ UNCHANGED <<clock, schedVars, ctrlVars>>

\* The Execute button offered for every task, whatever its status.
ExecuteClickAnyStatus(i) ==
    /\ pc = "idle"
    /\ i \in 1..Len(tasks)
    /\ pc' = "executing"
    /\ exec' = Some([id |-> tasks[i].id, data |-> tasks[i].data, from |-> "click"])
    /\ messages' = <<>>
    /\ UNCHANGED <<clock, schedVars, ctrlVars, tasks, task_counter, issued>>

\* main, lines 311-314: "Execute #id" is pressed on a task shown as Pending.
ExecuteClick(i) ==
    /\ pc = "idle"
    /\ i \in 1..Len(tasks)
    /\ tasks[i].status = "Pending"
    /\ pc' = "executing"
    /\ exec' = Some([id |-> tasks[i].id, data |-> tasks[i].data, from |-> "click"])
    /\ messages' = <<>>
    /\ UNCHANGED <<clock, schedVars, ctrlVars, tasks, task_counter, issued>>

\* main, lines 257-263 and 314-320: execute_web_task returns and the outcome
\* is recorded.
ExecuteReturn ==
    /\ pc = "executing"
    /\ LET result == execute_web_task(exec[1].data)
       IN /\ tasks' = update_task_status(tasks, exec[1].id, OutcomeStatus(result), result.text)
          /\ messages' =
                IF exec[1].from = "create"
                THEN Append(messages,
                        [kind |-> IF result.success THEN "success" ELSE "error",
                         text |-> result.text, id |-> None])
                ELSE <<>>
    /\ pc' = "idle"
    /\ exec' = None
    /\ UNCHANGED <<clock, schedVars, ctrlVars, task_counter, issued>>

\* main, lines 335-339: "Clear All Tasks" is pressed.
ClearAllTasks ==
    /\ pc = "idle"
    /\ tasks' = <<>>
    /\ task_counter' = 1
    /\ messages' = <<>>
    /\ UNCHANGED <<clock, schedVars, ctrlVars, pc, exec, issued>>

----------------------------------------------------------------------------
(* automation/web_controller.py *)

\* dict.get(key, default) on an entry of task_data.
Get(entry, default) == IF entry = None THEN default ELSE entry[1]

FileInput == "input[type=\"file\"]"
Selectors == {"name", "email", FileInput}
ExistingFiles == {"a.txt"}

\* The pages a url may lead to: the selectors that locate an element, those
\* among them that By.NAME locates, and whether a submit button is found.
Pages ==
    UNION {{[fields |-> fs, named |-> ns, submit_button |-> b] :
                ns \in SUBSET (fs \cap {"name", "email"}), b \in BOOLEAN} :
            fs \in SUBSET Selectors}

\* WebAutomationController.navigate_to_url: the driver it leaves and the
\* record it returns, for each way the browser may behave.
navigate_to_url(url) ==
    {[driver |-> "none",
      result |-> [success |-> FALSE, error |-> "Failed to initialize WebDriver"]],
     [driver |-> "open",
      result |-> [success |-> FALSE, error |-> "Navigation failed"]],
     [driver |-> "open",
      result |-> [success |-> TRUE, current_url |-> url, title |-> "t"]]}

\* WebAutomationController.fill_form; form_data is the sequence of its keys.
fill_form(form_data, submit, pg) ==
    LET filled_fields == SelectSeq(form_data, LAMBDA f : f \in pg.fields)
        failed_fields == SelectSeq(form_data, LAMBDA f : f \notin pg.fields)
    IN IF /\ submit
          /\ ~pg.submit_button
          /\ filled_fields # <<>>
          /\ filled_fields[Len(filled_fields)] \notin pg.named
       THEN [success |-> FALSE, error |-> "Form filling failed"]
       ELSE [success |-> Len(filled_fields) > 0, filled_fields |-> filled_fields,
             failed_fields |-> failed_fields, submitted |-> submit]

\* WebAutomationController.extract_data.
extract_data(selectors, pg) ==
    [success |-> TRUE,
     data |-> [k \in 1..Len(selectors) |-> <<selectors[k], selectors[k] \in pg.fields>>],
     total_selectors |-> Len(selectors),
     successful_extractions |-> Len(selectors)]

\* WebAutomationController.perform_click_sequence.
perform_click_sequence(click_selectors, pg) ==
    LET successful_clicks == SelectSeq(click_selectors, LAMBDA c : c \in pg.fields)
        failed_clicks == SelectSeq(click_selectors, LAMBDA c : c \notin pg.fields)
    IN [success |-> Len(successful_clicks) > 0,
        successful_clicks |-> successful_clicks, failed_clicks |-> failed_clicks,
        total_attempted |-> Len(click_selectors)]

\* WebAutomationController.upload_files.
upload_files(file_input_selector, file_paths, pg) ==
    IF file_input_selector \notin pg.fields
    THEN [success |-> FALSE, error |-> "File upload failed"]
    ELSE LET uploaded_files == SelectSeq(file_paths, LAMBDA f : f \in ExistingFiles)
             failed_files == SelectSeq(file_paths, LAMBDA f : f \notin ExistingFiles)
         IN [success |-> Len(uploaded_files) > 0,
             uploaded_files |-> uploaded_files, failed_files |-> failed_files]

\* The task_data dictionaries callers pass; an entry is None when the key is
\* missing.
TaskData(url, form_data, submit, selectors, click_sequence, file_selector, files) ==
    [url |-> url, form_data |-> form_data, submit |-> submit, selectors |-> selectors, click_sequence |-> click_sequence, file_selector |-> file_selector, files |-> files]

CallUrls == {None, Some("https://example.com")}

ExecuteCalls ==
    {[fn |-> "execute_form_fill_task",
      task_data |-> TaskData(u, fd, sb, None, None, None, None)] :
        u \in CallUrls,
        fd \in {None, Some(<<"name">>), Some(<<"name", "email">>)},
        sb \in {None, Some(TRUE)}}
    \cup {[fn |-> "execute_data_extraction_task",
           task_data |-> TaskData(u, None, None, sl, None, None, None)] :
            u \in CallUrls, sl \in {None, Some(<<"name">>)}}
    \cup {[fn |-> "execute_click_automation_task",
           task_data |-> TaskData(u, None, None, None, cs, None, None)] :
            u \in CallUrls, cs \in {None, Some(<<"name", "email">>)}}
    \cup {[fn |-> "execute_file_upload_task",
           task_data |-> TaskData(u, None, None, None, None, fs, fl)] :
            u \in CallUrls, fs \in {None, Some("name")},
            fl \in {None, Some(<<"a.txt">>), Some(<<"b.txt">>)}}

NoCall == [fn |-> "", task_data |-> TaskData(None, None, None, None, None, None, None)]
NoPage == [fields |-> {}, named |-> {}, submit_button |-> FALSE]

Returns(value) == Some([raised |-> FALSE, value |-> value])
Raises(exception) == Some([raised |-> TRUE, value |-> exception])

\* An execute_*_task function is called: it builds its controller.
ExecuteTaskCall(call, pg) ==
    /\ xpc = "idle"
    /\ xpc' = "navigate"
    /\ xcall' = call
    /\ page' = pg
    /\ driver' = "none"
    /\ pending' = None
    /\ outcome' = None
    /\ UNCHANGED <<clock, schedVars, dashVars>>

\* "nav_result = controller.navigate_to_url(task_data['url'])" and the test of
\* nav_result['success']; task_data['url'] raises KeyError without the key.
Navigate ==
    /\ xpc = "navigate"
    /\ IF xcall.task_data.url = None
       THEN /\ pending' = Raises("KeyError: 'url'")
            /\ xpc' = "close"
            /\ UNCHANGED driver
       ELSE \E nav \in navigate_to_url(xcall.task_data.url[1]) :
                /\ driver' = nav.driver
                /\ IF nav.result.success
                   THEN xpc' = "act" /\ UNCHANGED pending
                   ELSE xpc' = "close" /\ pending' = Returns(nav.result)
    /\ UNCHANGED <<clock, schedVars, dashVars, xcall, page, outcome>>

\* The action of the task on the loaded page, and "return result".
Act ==
    /\ xpc = "act"
    /\ LET task_data == xcall.task_data
       IN pending' = Returns(
            CASE xcall.fn = "execute_form_fill_task" ->
                    fill_form(Get(task_data.form_data, <<>>),
                              Get(task_data.submit, FALSE), page)
              [] xcall.fn = "execute_data_extraction_task" ->
                    extract_data(Get(task_data.selectors, <<>>), page)
              [] xcall.fn = "execute_click_automation_task" ->
                    perform_click_sequence(Get(task_data.click_sequence, <<>>), page)
              [] OTHER ->
                    upload_files(Get(task_data.file_selector, FileInput),
                                 Get(task_data.files, <<>>), page))
    /\ xpc' = "close"
    /\ UNCHANGED <<clock, schedVars, dashVars, xcall, page, driver, outcome>>

\* "finally: controller.close()", after which the pending return value or
\* exception reaches the caller.
Close ==
    /\ xpc = "close"
    /\ driver' = "none"
    /\ outcome' = pending
    /\ xpc' = "idle"
    /\ UNCHANGED <<clock, schedVars, dashVars, xcall, page, pending>>

----------------------------------------------------------------------------

SchedInit ==
    /\ clock = 0
    /\ db_tasks = <<>>
    /\ task_logs = <<>>
    /\ cpc = [c \in Callers |-> "idle"]
    /\ ctask = [c \in Callers |-> NoTask]
    /\ reply = None
    /\ listing = NoListing

DashInit ==
    /\ tasks = <<>>
    /\ task_counter = 1
    /\ pc = "idle"
    /\ exec = None
    /\ messages = <<>>
    /\ issued = {}

CtrlInit ==
    /\ xpc = "idle"
    /\ xcall = NoCall
    /\ page = NoPage
    /\ driver = "none"
    /\ pending = None
    /\ outcome = None

Init == SchedInit /\ DashInit /\ CtrlInit

SchedNext ==
    \/ \E c \in Callers, sub \in Submissions : CreateTaskBuild(c, sub)
    \/ \E c \in Callers : CreateTaskSave(c)
    \/ \E c \in Callers : CreateTaskLog(c)
    \/ \E task_id \in TaskIds : GetTaskStatus(task_id)
    \/ Tick

SchedSpec == Init /\ [][SchedNext]_vars

\* The store used through TaskDatabase and the scheduler's queries.
StoreNext ==
    \/ \E task \in TaskObjects : SaveTask(task)
    \/ \E status \in StatusFilters, limit \in Limits : GetTasks(status, limit)
    \/ \E status \in StatusArgs : GetAllTasks(status)
    \/ \E task_id \in TaskIds : GetTaskStatus(task_id)

StoreSpec == Init /\ [][StoreNext]_vars

DashNext ==
    \/ \E w \in Sidebar : CreateTaskClick(w)
    \/ \E i \in 1..MaxTasks : ExecuteClick(i)
    \/ ExecuteReturn
    \/ ClearAllTasks
    \/ Tick

DashSpec == Init /\ [][DashNext]_vars

\* The execute_*_task functions of web_controller.py.
CtrlNext ==
    \/ \E call \in ExecuteCalls, pg \in Pages : ExecuteTaskCall(call, pg)
    \/ Navigate
    \/ Act
    \/ Close

CtrlSpec == Init /\ [][CtrlNext]_vars

\* The two stores share no state but the clock, so each is checked under its
\* own specification; Spec interleaves them.
Next == SchedNext \/ StoreNext \/ DashNext \/ CtrlNext

Spec == Init /\ [][Next]_vars

\* The threads calling create_task keep running, every query is answered and
\* time passes.
FairSchedSpec ==
    /\ SchedSpec
    /\ \A c \in Callers : WF_vars(\E sub \in Submissions : CreateTaskBuild(c, sub))
    /\ \A c \in Callers : WF_vars(CreateTaskSave(c))
    /\ \A c \in Callers : WF_vars(CreateTaskLog(c))
    /\ \A task_id \in TaskIds : WF_vars(GetTaskStatus(task_id))
    /\ WF_vars(Tick)

----------------------------------------------------------------------------
(* Claims *)

\* The ids create_task has returned, in the order of return: create_task
\* logs "Task created" for its id in the step that returns it.
ReturnedIds == [k \in 1..Len(task_logs) |-> task_logs[k].task_id]

\* C1: any two calls of create_task return distinct ids and the second never
\* overwrites the task of the first: once n calls have returned, the store
\* holds n tasks.
C1_DistinctIds ==
    /\ \A i, j \in 1..Len(ReturnedIds) : i # j => ReturnedIds[i] # ReturnedIds[j]
    /\ (\A c \in Callers : cpc[c] = "idle")
            => Cardinality(DOMAIN db_tasks) = Len(ReturnedIds)

\* C2: a stored task is Scheduled exactly when scheduled_at is given and later
\* than the time of creation, and Pending otherwise.
C2_ScheduledIffFuture ==
    \A id \in DOMAIN db_tasks :
        LET task == _row_to_task(db_tasks[id])
            future == task.scheduled_at # None /\ task.scheduled_at[1] > task.created_at
        IN task.status = (IF future THEN SCHEDULED ELSE PENDING)

\* C3: create_task persists nothing for an empty url or description: no
\* stored task has an empty url or an empty description.
C3_NoEmptyUrlOrDescription ==
    \A id \in DOMAIN db_tasks :
        db_tasks[id].url # "" /\ db_tasks[id].description # ""

\* The field payloads of the submission form that are not JSON.
UnparsableTexts == {"{name: John", "John"}

\* C4: pressing Create Task for a form_fill task whose field payload is not
\* parsable JSON adds no task, leaves task_counter alone, reports no id and
\* starts no execution.
C4_InvalidJsonRejected ==
    [][\A w \in Sidebar :
        (w.task_type = "form_fill" /\ w.form_fields \in UnparsableTexts
            /\ CreateTaskClick(w))
        => /\ tasks' = tasks
           /\ task_counter' = task_counter
           /\ pc' = "idle"
           /\ exec' = None
           /\ \A k \in 1..Len(messages') : messages'[k].id = None]_vars

\* A submission with an unparsable payload was just rejected.
C4_Witness ==
    /\ messages # <<>>
    /\ messages[1].text = "Invalid JSON format for form fields"
    /\ tasks = <<>>
    /\ task_counter = 1

\* C5: every task in the list carries the non-empty parameters its kind
\* requires.
C5_RequiredParameters ==
    \A i \in 1..Len(tasks) :
        LET d == tasks[i].data
        IN CASE d.task_type = "form_fill" ->
                    /\ d.form_data # None
                    /\ d.form_data[1].kind = "object"
                    /\ d.form_data[1].keys # <<>>
             [] d.task_type = "data_extraction" ->
                    d.selectors # None /\ d.selectors[1] # <<>>
             [] d.task_type = "click_automation" ->
                    d.click_sequence # None /\ d.click_sequence[1] # <<>>
             [] OTHER ->
                    /\ d.file_selector # None /\ d.file_selector[1] # ""
                    /\ d.files # None /\ d.files[1] # <<>>

\* C6: a Completed task has a result and no error_message, a Failed task an
\* error_message and no result, any other task neither.  The dashboard's task
\* dict has no error_message key: task.get('error_message') is None.
C6_ResultXorError ==
    \A i \in 1..Len(tasks) :
        LET result == tasks[i].result
            error_message == None
        IN CASE tasks[i].status = "Completed" -> result # None /\ error_message = None
             [] tasks[i].status = "Failed" -> error_message # None /\ result = None
             [] OTHER -> result = None /\ error_message = None

\* C7: a task is Failed only once its retries are exhausted: retry_count =
\* max_retries, or max_retries = 0.  The dashboard re-runs no failed task, so
\* the number of retries it has made for a task is 0.
C7_FailedOnlyAfterRetries ==
    \A i \in 1..Len(tasks) :
        LET retry_count == 0
        IN tasks[i].status = "Failed"
                => (retry_count = max_retries \/ max_retries = 0)

\* C8: a task is in status Running for the whole time its backend call is in
\* flight (the claim step that makes one worker the owner).
C8_RunningWhileInFlight ==
    pc = "executing" =>
        \E i \in 1..Len(tasks) :
            tasks[i].id = exec[1].id /\ tasks[i].status = "Running"

\* C9: while the current time is earlier than a task's scheduled time, the
\* task has not been handed to the backend and has no recorded outcome.
C9_NotBeforeScheduledTime ==
    \A i \in 1..Len(tasks) :
        (tasks[i].data.schedule_time # None /\ clock < tasks[i].data.schedule_time[1])
        => /\ tasks[i].status = "Pending"
           /\ tasks[i].result = None
           /\ ~(pc = "executing" /\ exec[1].id = tasks[i].id)

\* C10: every task that is created eventually reaches a terminal state.
C10_EventuallyTerminal ==
    \A id \in 0..MaxTime :
        (id \in DOMAIN db_tasks) ~>
            (id \in DOMAIN db_tasks
                /\ db_tasks[id].status \in {COMPLETED, FAILED, CANCELLED})

C12_StatusIsOneOfSix ==
    LET six == {"scheduled", "pending", "running", "completed", "failed", "cancelled"}
    IN /\ \A id \in DOMAIN db_tasks : db_tasks[id].status \in six
       /\ \A id \in TaskIds :
            get_task(id) # None => get_task(id)[1].status \in six
       /\ \A rows \in get_tasks(None, DefaultLimit) :
            \A k \in 1..Len(rows) : rows[k].status \in six
       /\ reply # None => reply[1].status \in six

\* A scheduled task is stored and its status was read back.
C12_Witness ==
    /\ reply # None
    /\ reply[1].status = "scheduled"
    /\ \E id \in DOMAIN db_tasks : db_tasks[id].status = "pending"

\* C13: save_task is idempotent: after a save of task t, saving t again
\* leaves the table as it is; the save left the other rows alone, so the
\* table holds one row for t.id, and it added no event to the log.
C13_SaveIdempotent ==
    [][listing'.fn = "save_task" =>
        LET t == listing'.rows[1]
        IN /\ save_task(db_tasks', t) = db_tasks'
           /\ save_task(save_task(db_tasks, t), t) = db_tasks'
           /\ DOMAIN db_tasks' = DOMAIN db_tasks \cup {t.id}
           /\ \A id \in DOMAIN db_tasks : id # t.id => db_tasks'[id] = db_tasks[id]
           /\ task_logs' = task_logs]_vars

\* A failed task was saved next to the row of another task.
C13_Witness ==
    /\ listing.fn = "save_task"
    /\ Cardinality(DOMAIN db_tasks) >= 2
    /\ db_tasks[listing.rows[1].id].status = "failed"
    /\ task_logs = <<>>

\* C14: after save_task(t), get_task(t.id) returns a task equal to t in every
\* field, also when result, task_data or tags is empty.
C14_RoundTrip ==
    listing.fn = "save_task" =>
        get_task(listing.rows[1].id) = Some(listing.rows[1])

C16_ListingNewestFirst ==
    (listing.fn \in {"get_tasks", "get_all_tasks"} /\ ~listing.raised) =>
        LET rows == listing.rows
            n == Len(rows)
            created(k) == IF listing.fn = "get_tasks"
                          THEN rows[k].created_at ELSE rows[k].created_at[2]
            matching == {id \in DOMAIN db_tasks :
                            listing.status = None
                                \/ db_tasks[id].status = listing.status[1]}
            listed == {rows[k].id : k \in 1..n}
        IN /\ n <= listing.limit
           /\ \A k \in 1..(n - 1) : created(k) >= created(k + 1)
           /\ \A j, k \in 1..n : j # k => rows[j].id # rows[k].id
           /\ listed \subseteq matching
           /\ \A k \in 1..n :
                /\ rows[k].status = db_tasks[rows[k].id].status
                /\ created(k) = db_tasks[rows[k].id].created_at[2]
           /\ n = listing.limit \/ listed = matching
           /\ \A id \in matching \ listed :
                \A k \in 1..n : db_tasks[id].created_at[2] <= created(k)

\* A filtered listing cut by its limit: the older of two matching tasks is
\* left out.
C16_Witness ==
    /\ listing.fn = "get_tasks"
    /\ listing.status # None
    /\ listing.limit = 1
    /\ Len(listing.rows) = 1
    /\ \E id \in DOMAIN db_tasks :
        /\ db_tasks[id].status = listing.status[1]
        /\ db_tasks[id].created_at[2] < listing.rows[1].created_at

\* C17: the event log only grows at its end, and every create_task call
\* appends, by the time it returns, one event carrying the id of its task:
\* every stored task whose creation has returned has an event.
C17_EventLogAppendOnly ==
    [][/\ Len(task_logs') >= Len(task_logs)
       /\ SubSeq(task_logs', 1, Len(task_logs)) = task_logs
       /\ \A c \in Callers :
            (cpc[c] = "saved" /\ cpc'[c] = "idle")
                => /\ Len(task_logs') = Len(task_logs) + 1
                   /\ task_logs'[Len(task_logs')].task_id = ctask[c].id
       /\ \A id \in DOMAIN db_tasks' :
            (\A c \in Callers : ~(cpc'[c] = "saved" /\ ctask'[c].id = id))
                => \E k \in 1..Len(task_logs') : task_logs'[k].task_id = id]_vars

\* Two tasks were created and the log holds the event of each.
C17_Witness ==
    /\ Len(task_logs) >= 2
    /\ task_logs[1].task_id # task_logs[2].task_id
    /\ \A c \in Callers : cpc[c] = "idle"

\* C20: get_task_status and get_all_tasks, whatever their argument and whether
\* or not they find a task or raise, leave every stored row and the event
\* log as they were.
C20_QueriesReadOnly ==
    [][listing'.fn \in {"get_task_status", "get_all_tasks"}
        => (db_tasks' = db_tasks /\ task_logs' = task_logs)]_vars

\* Tasks are stored and get_all_tasks has listed some of them.
C20_Witness ==
    /\ listing.fn = "get_task_status"
    /\ reply # None
    /\ \E id \in DOMAIN db_tasks : db_tasks[id].status = "completed"

\* C18: no execute_*_task call ends with an exception reaching its caller:
\* whatever the task_data, the caller gets an outcome record.
C18_NeverRaises ==
    outcome # None => ~outcome[1].raised

\* C19: an id handed out by add_task was not handed out by an earlier
\* add_task, over any sequence of add_task and Clear All Tasks; and the ids of
\* the tasks in the list are pairwise distinct.
C19_IdsNeverReused ==
    [][/\ Len(tasks') = Len(tasks) + 1
            => tasks'[Len(tasks')].id \notin issued
       /\ \A i, j \in 1..Len(tasks') :
            i # j => tasks'[i].id # tasks'[j].id]_vars

\* C21: fill_form reports success exactly when at least one field of
\* form_data was filled, with and without submit, also when no submit button
\* is found and the key press on the last filled field fails.
C21_SuccessIffFilled ==
    [][(xpc = "act" /\ xpc' = "close" /\ xcall.fn = "execute_form_fill_task") =>
        LET form_data == IF xcall.task_data.form_data = None THEN <<>>
                         ELSE xcall.task_data.form_data[1]
        IN pending'[1].value.success
            <=> (\E k \in 1..Len(form_data) : form_data[k] \in page.fields)]_vars

====
